---- MODULE Spec2Model ----
(***************************************************************************)
(* A model of the query engine of three-ten-but-its-rust: the serde        *)
(* deserialization of a query (src/src/query.rs, src/src/types.rs), the    *)
(* filter closures, execute_query with its 5000-row cap, grouping,         *)
(* projection and ordering, and the request handler of src/src/main.rs.    *)
(*                                                                         *)
(* Numbers.  An OrderedFloat<f32> is modelled as an integer count of       *)
(* hundredths (9800 is 98.00), in exact arithmetic: every number the model *)
(* uses has at most two decimals, so comparison, SUM, MAX, MIN and COUNT   *)
(* are exact, and AVG is the exactly rounded quotient.                     *)
(*                                                                         *)
(* Strings.  A string is a TLA+ string; Chars gives the characters of the  *)
(* strings the model uses, for the regex matcher and for Ord on Str.       *)
(***************************************************************************)
EXTENDS Integers, Sequences, FiniteSets, TLC

VARIABLES sections, cache, pc, json, query, columns_result, result, prev, threads, lock

vars == <<sections, cache, pc, json, query, columns_result, result, prev, threads, lock>>

(***************************************************************************)
(* Bounds of the model.                                                    *)
(***************************************************************************)
\* Longest dataset vector of the specification Spec.
MaxRecords == 2
\* SpecCap: dataset vectors hold ResultCap - 1 .. ResultCap + MaxExtra records.
MaxExtra == 2

(***************************************************************************)
(* Program constants.                                                      *)
(***************************************************************************)
\* `collected.len() > 5000`
ResultCap == 5000
\* `.take(5001)`: one more, to detect overflow.
TakeLimit == 5001
\* Hundredths per unit: `(result * 100.0).round() / 100.0`.
Scale == 100
\* EPSILON = 1e-4, as its inverse.
EpsilonInv == 10000

Min2(a, b) == IF a < b THEN a ELSE b

Abs(a) == IF a < 0 THEN -a ELSE a

Range(f) == {f[i] : i \in DOMAIN f}

(***************************************************************************)
(* Strings: their characters, and the byte order of String's Ord.          *)
(***************************************************************************)
CharCode ==
  [c \in {"*", "0", "1", "2", "3", "5", "a", "b", "d", "e", "h", "i", "l", "o", "p", "t"} |->
     CASE c = "*" -> 42 [] c = "0" -> 48 [] c = "1" -> 49 [] c = "2" -> 50
       [] c = "3" -> 51 [] c = "5" -> 53 [] c = "a" -> 97 [] c = "b" -> 98
       [] c = "d" -> 100 [] c = "e" -> 101 [] c = "h" -> 104 [] c = "i" -> 105
       [] c = "l" -> 108 [] c = "o" -> 111 [] c = "p" -> 112 [] c = "t" -> 116]

Chars(s) ==
  CASE s = "" -> <<>>
    [] s = "adhe" -> <<"a", "d", "h", "e">>
    [] s = "biol" -> <<"b", "i", "o", "l">>
    [] s = "a*" -> <<"a", "*">>
    [] s = "*he" -> <<"*", "h", "e">>
    [] s = "a*he" -> <<"a", "*", "h", "e">>
    [] s = "(" -> <<"(">>
    [] s = "1" -> <<"1">>
    [] s = "2" -> <<"2">>
    [] s = "3" -> <<"3">>
    [] s = "310" -> <<"3", "1", "0">>
    [] s = "t" -> <<"t">>
    [] s = "p" -> <<"p">>

\* <[u8] as Ord>::cmp: the first differing byte decides, then the length.
CmpStr(s, t) ==
  LET a == Chars(s)
      b == Chars(t)
      n == Min2(Len(a), Len(b))
      diff == {i \in 1..n : a[i] # b[i]}
  IN IF diff = {}
       THEN (IF Len(a) < Len(b) THEN -1 ELSE IF Len(a) > Len(b) THEN 1 ELSE 0)
       ELSE LET i == CHOOSE k \in diff : \A m \in diff : k <= m
            IN IF CharCode[a[i]] < CharCode[b[i]] THEN -1 ELSE 1

(***************************************************************************)
(* Value (src/src/dataset.rs): Num(OrderedFloat<f32>) | Str(String).       *)
(***************************************************************************)
Num(n) == [t |-> "Num", n |-> n, s |-> ""]

Str(s) == [t |-> "Str", n |-> 0, s |-> s]

\* The derived PartialOrd: variants in declaration order (every Num is below
\* every Str), then the payloads.  -1, 0, 1 for Less, Equal, Greater.
CmpValue(a, b) ==
  IF a.t # b.t THEN (IF a.t = "Num" THEN -1 ELSE 1)
  ELSE IF a.t = "Num" THEN (IF a.n < b.n THEN -1 ELSE IF a.n > b.n THEN 1 ELSE 0)
  ELSE CmpStr(a.s, b.s)

(***************************************************************************)
(* Results.  An anyhow error is its message (kind) and the name it quotes. *)
(***************************************************************************)
Ok(v) == [ok |-> TRUE, v |-> v, err |-> "", arg |-> ""]

Err(kind, arg) == [ok |-> FALSE, v |-> <<>>, err |-> kind, arg |-> arg]

(***************************************************************************)
(* The dataset capability of a Course (src/src/dataset.rs).                *)
(***************************************************************************)
field_prefix == "courses_"

Course(uuid, dept, avg) ==
  [uuid |-> uuid, id |-> "310", title |-> "t", instructor |-> "p", dept |-> dept,
   year |-> 201500, avg |-> avg, pass |-> 1000, fail |-> 0, audit |-> 0]

\* get: the match of the derive macro, one arm per field, String fields to Str
\* and f32 fields to Num; any other name is an Err.
Get(item, field_name) ==
  CASE field_name = "courses_uuid" -> Ok(Str(item.uuid))
    [] field_name = "courses_id" -> Ok(Str(item.id))
    [] field_name = "courses_title" -> Ok(Str(item.title))
    [] field_name = "courses_instructor" -> Ok(Str(item.instructor))
    [] field_name = "courses_dept" -> Ok(Str(item.dept))
    [] field_name = "courses_year" -> Ok(Num(item.year))
    [] field_name = "courses_avg" -> Ok(Num(item.avg))
    [] field_name = "courses_pass" -> Ok(Num(item.pass))
    [] field_name = "courses_fail" -> Ok(Num(item.fail))
    [] field_name = "courses_audit" -> Ok(Num(item.audit))
    [] OTHER -> Err("Field not found", field_name)

\* get_all: the prefixed names in declaration order.
GetAll ==
  <<"courses_uuid", "courses_id", "courses_title", "courses_instructor", "courses_dept",
    "courses_year", "courses_avg", "courses_pass", "courses_fail", "courses_audit">>

(***************************************************************************)
(* The dataset capability of a Room (src/src/rooms_dataset.rs).  The       *)
(* derive macro names an arm prefix + field.ident.to_string(), and the     *)
(* text of the raw identifier r#type is "r#type".                          *)
(***************************************************************************)
Room(shortname, number, seats) ==
  [fullname |-> "t", shortname |-> shortname, number |-> number, name |-> "p",
   address |-> "t", seats |-> seats, type |-> "t", furniture |-> "p", href |-> "t"]

RoomGet(item, field_name) ==
  CASE field_name = "rooms_fullname" -> Ok(Str(item.fullname))
    [] field_name = "rooms_shortname" -> Ok(Str(item.shortname))
    [] field_name = "rooms_number" -> Ok(Str(item.number))
    [] field_name = "rooms_name" -> Ok(Str(item.name))
    [] field_name = "rooms_address" -> Ok(Str(item.address))
    [] field_name = "rooms_seats" -> Ok(Num(item.seats))
    [] field_name = "rooms_r#type" -> Ok(Str(item.type))
    [] field_name = "rooms_furniture" -> Ok(Str(item.furniture))
    [] field_name = "rooms_href" -> Ok(Str(item.href))
    [] OTHER -> Err("Field not found", field_name)

\* get_all of a Room: the prefixed names in declaration order.
RoomGetAll ==
  <<"rooms_fullname", "rooms_shortname", "rooms_number", "rooms_name", "rooms_address",
    "rooms_seats", "rooms_type", "rooms_furniture", "rooms_href">>

IsRoom(item) == "seats" \in DOMAIN item

\* <D as Dataset>::get and get_all, by the type of the record.
DatasetGet(item, field_name) ==
  IF IsRoom(item) THEN RoomGet(item, field_name) ELSE Get(item, field_name)

DatasetGetAll(item) == IF IsRoom(item) THEN RoomGetAll ELSE GetAll

(***************************************************************************)
(* JSON text, as serde_json reads it: a number, a string, an array, or an  *)
(* object (its keys in text order with the values beside them).            *)
(***************************************************************************)
JNum(n) == [k |-> "num", n |-> n, s |-> "", a |-> <<>>, keys |-> <<>>]

JStr(s) == [k |-> "str", n |-> 0, s |-> s, a |-> <<>>, keys |-> <<>>]

JArr(a) == [k |-> "arr", n |-> 0, s |-> "", a |-> a, keys |-> <<>>]

JObj(keys, vals) == [k |-> "obj", n |-> 0, s |-> "", a |-> vals, keys |-> keys]

JPair(key, val) == JObj(<<key>>, <<val>>)

Where(j, key) == {i \in 1..Len(j.keys) : j.keys[i] = key}

HasKey(j, key) == Where(j, key) # {}

\* A struct field: present once (twice is serde's duplicate-field error).
Once(j, key) == Cardinality(Where(j, key)) = 1

At(j, key) == j.a[CHOOSE i \in Where(j, key) : TRUE]

ParseError(msg) == Err("ParseError", msg)

(***************************************************************************)
(* src/src/types.rs: KVPair<T> reads a HashMap<String, T> and wants        *)
(* exactly one entry.                                                      *)
(***************************************************************************)
KVPair(key, num, str) == [key |-> key, num |-> num, str |-> str]

\* The HashMap<String, T> of an object whose values are all of kind kind:
\* a repeated key keeps its last value.
DeHashMap(j, kind) ==
  IF j.k = "obj" /\ \A i \in 1..Len(j.a) : j.a[i].k = kind
    THEN Ok([key \in Range(j.keys) |->
               j.a[CHOOSE i \in Where(j, key) : \A m \in Where(j, key) : m <= i]])
    ELSE ParseError("invalid type")

DeKVPair(j, kind) ==
  LET map == DeHashMap(j, kind)
  IN IF ~map.ok THEN map
     ELSE IF Cardinality(DOMAIN map.v) # 1 THEN ParseError("Expected exactly 1 entry")
     ELSE LET key == CHOOSE c \in DOMAIN map.v : TRUE
          IN Ok(KVPair(key, map.v[key].n, map.v[key].s))

\* KVPair<KVPair<String>>, an APPLY rule: key = the output name, str = the
\* function, num unused, col = the argument column.
DeApplyRule(j) ==
  IF j.k = "obj" /\ \A i \in 1..Len(j.a) : DeKVPair(j.a[i], "str").ok
    THEN IF Cardinality(Range(j.keys)) # 1 THEN ParseError("Expected exactly 1 entry")
         ELSE LET inner == DeKVPair(j.a[Len(j.a)], "str").v
              IN Ok([key |-> j.keys[1], func |-> inner.key, col |-> inner.str])
    ELSE ParseError("invalid type")

DeVecString(j) ==
  IF j.k = "arr" /\ \A i \in 1..Len(j.a) : j.a[i].k = "str"
    THEN Ok([i \in 1..Len(j.a) |-> j.a[i].s])
    ELSE ParseError("invalid type")

(***************************************************************************)
(* src/src/query.rs: the untagged enum Filter.  serde buffers the value    *)
(* and tries the variants in declaration order; a struct variant reads a   *)
(* map, wants its own field once and ignores every other key, so EMPTY {}, *)
(* the last variant, takes any object the others refused.                  *)
(***************************************************************************)
Filter(op, subs, kv) == [op |-> op, subs |-> subs, key |-> kv.key, num |-> kv.num, str |-> kv.str]

NoKV == KVPair("", 0, "")

RECURSIVE DeFilter(_)
DeVecFilter(j) ==
  IF j.k = "arr" /\ \A i \in 1..Len(j.a) : DeFilter(j.a[i]).ok
    THEN Ok([i \in 1..Len(j.a) |-> DeFilter(j.a[i]).v])
    ELSE ParseError("invalid type")

DeFilter(j) ==
  IF j.k # "obj" THEN ParseError("data did not match any variant of untagged enum Filter")
  ELSE IF Once(j, "AND") /\ DeVecFilter(At(j, "AND")).ok
    THEN Ok(Filter("AND", DeVecFilter(At(j, "AND")).v, NoKV))
  ELSE IF Once(j, "OR") /\ DeVecFilter(At(j, "OR")).ok
    THEN Ok(Filter("OR", DeVecFilter(At(j, "OR")).v, NoKV))
  ELSE IF Once(j, "NOT") /\ DeFilter(At(j, "NOT")).ok
    THEN Ok(Filter("NOT", <<DeFilter(At(j, "NOT")).v>>, NoKV))
  ELSE IF Once(j, "LT") /\ DeKVPair(At(j, "LT"), "num").ok
    THEN Ok(Filter("LT", <<>>, DeKVPair(At(j, "LT"), "num").v))
  ELSE IF Once(j, "GT") /\ DeKVPair(At(j, "GT"), "num").ok
    THEN Ok(Filter("GT", <<>>, DeKVPair(At(j, "GT"), "num").v))
  ELSE IF Once(j, "EQ") /\ DeKVPair(At(j, "EQ"), "num").ok
    THEN Ok(Filter("EQ", <<>>, DeKVPair(At(j, "EQ"), "num").v))
  ELSE IF Once(j, "IS") /\ DeKVPair(At(j, "IS"), "str").ok
    THEN Ok(Filter("IS", <<>>, DeKVPair(At(j, "IS"), "str").v))
  ELSE Ok(Filter("EMPTY", <<>>, NoKV))

(***************************************************************************)
(* Options: COLUMNS, and the flattened Option<Order>.  With                *)
(* #[serde(flatten)] the Order is read from the keys of the OPTIONS object *)
(* that are not COLUMNS, taken together as one map: ONE(String) never      *)
(* reads a map, MANY wants the keys "dir" and "keys" in it, and a failure  *)
(* is None (Option's untagged read), not an error.                         *)
(***************************************************************************)
Order(kind, col, dir, keys) == [kind |-> kind, col |-> col, dir |-> dir, keys |-> keys]

NoOrder == Order("NONE", "", "", <<>>)

DeOrder(j) ==
  IF /\ Once(j, "dir") /\ At(j, "dir").k = "str"
     /\ Once(j, "keys") /\ DeVecString(At(j, "keys")).ok
    THEN Order("MANY", "", At(j, "dir").s, DeVecString(At(j, "keys")).v)
    ELSE NoOrder

DeOptions(j) ==
  IF j.k # "obj" THEN ParseError("invalid type")
  ELSE IF ~HasKey(j, "COLUMNS") THEN ParseError("missing field COLUMNS")
  ELSE IF ~Once(j, "COLUMNS") THEN ParseError("duplicate field COLUMNS")
  ELSE IF ~DeVecString(At(j, "COLUMNS")).ok THEN ParseError("invalid type")
  ELSE Ok([columns |-> DeVecString(At(j, "COLUMNS")).v, order |-> DeOrder(j)])

(***************************************************************************)
(* Transformations and Query: structs whose fields are read by name; a     *)
(* key that is no field is skipped (no deny_unknown_fields).               *)
(***************************************************************************)
NoTransformations == [some |-> FALSE, group |-> <<>>, apply |-> <<>>]

DeTransformations(j) ==
  IF j.k # "obj" THEN ParseError("invalid type")
  ELSE IF ~Once(j, "GROUP") \/ ~DeVecString(At(j, "GROUP")).ok
    THEN ParseError("GROUP")
  ELSE IF \/ ~Once(j, "APPLY") \/ At(j, "APPLY").k # "arr"
          \/ \E i \in 1..Len(At(j, "APPLY").a) : ~DeApplyRule(At(j, "APPLY").a[i]).ok
    THEN ParseError("APPLY")
  ELSE Ok([some |-> TRUE, group |-> DeVecString(At(j, "GROUP")).v,
           apply |-> [i \in 1..Len(At(j, "APPLY").a) |-> DeApplyRule(At(j, "APPLY").a[i]).v]])

DeQuery(j) ==
  IF j.k # "obj" THEN ParseError("invalid type")
  ELSE IF ~HasKey(j, "WHERE") THEN ParseError("missing field WHERE")
  ELSE IF ~Once(j, "WHERE") THEN ParseError("duplicate field WHERE")
  ELSE IF ~DeFilter(At(j, "WHERE")).ok THEN DeFilter(At(j, "WHERE"))
  ELSE IF ~HasKey(j, "OPTIONS") THEN ParseError("missing field OPTIONS")
  ELSE IF ~Once(j, "OPTIONS") THEN ParseError("duplicate field OPTIONS")
  ELSE IF ~DeOptions(At(j, "OPTIONS")).ok THEN DeOptions(At(j, "OPTIONS"))
  ELSE IF ~HasKey(j, "TRANSFORMATIONS")
    THEN Ok([where |-> DeFilter(At(j, "WHERE")).v, options |-> DeOptions(At(j, "OPTIONS")).v,
             transformations |-> NoTransformations])
  ELSE IF ~Once(j, "TRANSFORMATIONS") THEN ParseError("duplicate field TRANSFORMATIONS")
  ELSE IF ~DeTransformations(At(j, "TRANSFORMATIONS")).ok
    THEN DeTransformations(At(j, "TRANSFORMATIONS"))
  ELSE Ok([where |-> DeFilter(At(j, "WHERE")).v, options |-> DeOptions(At(j, "OPTIONS")).v,
           transformations |-> DeTransformations(At(j, "TRANSFORMATIONS")).v])

(***************************************************************************)
(* The IS matcher: Regex::new(&format!("^{}$", val)) and is_match.  The    *)
(* pattern text is handed to the regex crate as it is, so over the         *)
(* model's alphabet (letters and '*') a '*' is the regex repetition of     *)
(* what stands before it: of the letter before it, or, when the pattern    *)
(* begins with it, of the assertion '^' (which the crate's parser accepts: *)
(* only an empty expression or a flag group before '*' is an error).  A    *)
(* repeated '^' may match zero times, which leaves the search unanchored   *)
(* at its start.  No pattern over this alphabet fails to compile; the     *)
(* pattern "(", a group that is never closed, does.                        *)
(***************************************************************************)
Regex_new(val) ==
  LET p == Chars(val)
      letters == SelectSeq([i \in 1..Len(p) |-> i], LAMBDA i : p[i] # "*")
  IN IF "(" \in Range(p) THEN Err("regex parse error", val)
     ELSE
     Ok([anchored |-> (Len(p) = 0 \/ p[1] # "*"),
         items |-> [m \in 1..Len(letters) |->
                      [c |-> p[letters[m]],
                       star |-> (letters[m] < Len(p) /\ p[letters[m] + 1] = "*")]]])

\* items[i..] match exactly s[j..] (the closing '$').
RECURSIVE MatchFrom(_, _, _, _)
MatchFrom(items, i, s, j) ==
  IF i > Len(items) THEN j = Len(s) + 1
  ELSE IF items[i].star
    THEN \/ MatchFrom(items, i + 1, s, j)
         \/ (j <= Len(s) /\ s[j] = items[i].c /\ MatchFrom(items, i, s, j + 1))
  ELSE j <= Len(s) /\ s[j] = items[i].c /\ MatchFrom(items, i + 1, s, j + 1)

is_match(regex, text) ==
  LET s == Chars(text)
  IN \E start \in (IF regex.anchored THEN {1} ELSE 1..(Len(s) + 1)) :
       MatchFrom(regex.items, 1, s, start)

(***************************************************************************)
(* REGEX_CACHE: pattern text -> Result<Regex, regex::Error>.               *)
(***************************************************************************)
EmptyCache == [p \in {} |-> Ok(<<>>)]

\* cache.entry(val).or_insert_with(|| Regex::new(..)).clone()
CacheEntry(c, val) == IF val \in DOMAIN c THEN c[val] ELSE Regex_new(val)

\* `pats` become the only entries: what the map held is dropped.
CacheInsert_forgets(c, pats) == [p \in pats |-> IF p \in DOMAIN c THEN c[p] ELSE Regex_new(p)]

CacheInsert(c, pats) == [p \in DOMAIN c \cup pats |-> CacheEntry(c, p)]

(***************************************************************************)
(* The filter closures (parse_filter, parse_and, parse_or,                 *)
(* parse_comparison), applied to one record.                               *)
(***************************************************************************)
FirstErr(rs) == CHOOSE i \in 1..Len(rs) : ~rs[i].ok /\ \A m \in 1..(i - 1) : rs[m].ok

HasErr(rs) == \E i \in 1..Len(rs) : ~rs[i].ok

\* A conjunction folded from false: false whatever the children are.
collect_all_from_false(rs) ==
  IF HasErr(rs) THEN rs[FirstErr(rs)] ELSE Ok(FALSE /\ \A i \in 1..Len(rs) : rs[i].v)

\* collect::<Result<Vec<bool>, _>>()? and then all / any.
collect_all(rs) == IF HasErr(rs) THEN rs[FirstErr(rs)] ELSE Ok(\A i \in 1..Len(rs) : rs[i].v)

collect_any(rs) == IF HasErr(rs) THEN rs[FirstErr(rs)] ELSE Ok(\E i \in 1..Len(rs) : rs[i].v)

\* The number of children called: up to the first Err.
Called(rs) == IF HasErr(rs) THEN FirstErr(rs) ELSE Len(rs)

\* NOT that answers true when its inner filter fails.
not_hides_error(inner) == IF inner.ok THEN Ok(~inner.v) ELSE Ok(TRUE)

not(inner) == IF inner.ok THEN Ok(~inner.v) ELSE inner

compare(args, got, op) ==
  IF got.ok /\ got.v.t = "Num"
    THEN Ok(CASE op = "lt" -> got.v.n < args.num
              [] op = "gt" -> got.v.n > args.num
              [] op = "eq" -> Abs(got.v.n - args.num) * EpsilonInv < Scale)
  ELSE IF got.ok THEN Err("Operation is not valid", args.key)
  ELSE Err("Field does not exist", args.key)

parse_comparison(args, course, op) == compare(args, Get(course, args.key), op)

\* map(|filter| filter(course)).collect::<Result<Vec<bool>, _>>()?: every
\* child is called, in order, until one is an Err; that Err is the result.
RECURSIVE parse_filter(_, _, _)
parse_and(and, course, c) ==
  collect_all([i \in 1..Len(and) |-> parse_filter(and[i], course, c)])

parse_or(or, course, c) ==
  collect_any([i \in 1..Len(or) |-> parse_filter(or[i], course, c)])

\* The IS closure on a Str column: the cached regex, or its compile error.
is_regex(regex, s) == IF regex.ok THEN Ok(is_match(regex.v, s)) ELSE regex

is_column(is, got, c) ==
  IF got.ok /\ got.v.t = "Str" THEN is_regex(CacheEntry(c, is.str), got.v.s)
  ELSE IF got.ok THEN Err("Operation is not valid", is.key)
  ELSE Err("Field does not exist", is.key)

parse_is(is, course, c) == is_column(is, Get(course, is.key), c)

parse_filter(filter, course, c) ==
  CASE filter.op = "AND" -> parse_and(filter.subs, course, c)
    [] filter.op = "OR" -> parse_or(filter.subs, course, c)
    [] filter.op = "NOT" -> not(parse_filter(filter.subs[1], course, c))
    [] filter.op = "LT" -> parse_comparison(filter, course, "lt")
    [] filter.op = "GT" -> parse_comparison(filter, course, "gt")
    [] filter.op = "EQ" -> parse_comparison(filter, course, "eq")
    [] filter.op = "IS" -> parse_is(filter, course, c)
    [] filter.op = "EMPTY" -> Ok(TRUE)

\* The pattern texts whose cache entry the call of the closure on `course`
\* reads or inserts: those of the IS leaves it reaches with a Str column.
RECURSIVE Touched(_, _, _)
Touched(filter, course, c) ==
  CASE filter.op \in {"AND", "OR"} ->
         UNION {Touched(filter.subs[i], course, c) :
                  i \in 1..Called([k \in 1..Len(filter.subs) |-> parse_filter(filter.subs[k], course, c)])}
    [] filter.op = "NOT" -> Touched(filter.subs[1], course, c)
    [] filter.op = "IS" ->
         IF Get(course, filter.key).ok /\ Get(course, filter.key).v.t = "Str"
           THEN {filter.str} ELSE {}
    [] OTHER -> {}

(***************************************************************************)
(* execute_query, first part: the scan.  filter_map yields the records on  *)
(* which the closure is Ok(true) or an Err, take(5001) stops the scan      *)
(* after 5001 yielded items, and collect stops it at the first Err.        *)
(***************************************************************************)
Least(S) == CHOOSE k \in S : \A m \in S : k <= m

\* filter_map's closure: Ok(false) is dropped, Ok(true) and Err go on.
Yields_every_record(r) == TRUE

Yields(r) == ~r.ok \/ r.v

Yielded(filter, dataset, c) ==
  SelectSeq([i \in 1..Len(dataset) |-> i], LAMBDA i : Yields(parse_filter(filter, dataset[i], c)))

\* take without its limit.
take_everything(y, n) == y

take(y, n) == SubSeq(y, 1, Min2(n, Len(y)))

Taken(filter, dataset, c) == take(Yielded(filter, dataset, c), TakeLimit)

\* The places in `t` of the records on which the closure is an Err.
ErrsIn(filter, dataset, c, t) ==
  {k \in 1..Len(t) : ~parse_filter(filter, dataset[t[k]], c).ok}

\* The index of the last record the scan calls the closure on.
stop(t, errs, len) ==
  IF errs # {} THEN t[Least(errs)] ELSE IF Len(t) = TakeLimit THEN t[TakeLimit] ELSE len

ScanStop(filter, dataset, c) ==
  stop(Taken(filter, dataset, c),
       ErrsIn(filter, dataset, c, Taken(filter, dataset, c)), Len(dataset))

\* item.get_all().iter().map(|key| (key.to_string(), item.get(key).unwrap()))
Row(item) == [key \in Range(GetAll) |-> Get(item, key).v]

\* collect::<anyhow::Result<Vec<_>>>().and_then(..): the first Err of the
\* scan, or "Result too large", or the rows of the records taken.
collected_off_by_one(filter, dataset, c, t, errs) ==
  IF errs # {} THEN parse_filter(filter, dataset[t[Least(errs)]], c)
  ELSE IF Len(t) >= ResultCap THEN Err("Result too large", "")
  ELSE Ok([k \in 1..Len(t) |-> Row(dataset[t[k]])])

collected(filter, dataset, c, t, errs) ==
  IF errs # {} THEN parse_filter(filter, dataset[t[Least(errs)]], c)
  ELSE IF Len(t) > ResultCap THEN Err("Result too large", "")
  ELSE Ok([k \in 1..Len(t) |-> Row(dataset[t[k]])])

filter_result(filter, dataset, c) ==
  collected(filter, dataset, c, Taken(filter, dataset, c),
            ErrsIn(filter, dataset, c, Taken(filter, dataset, c)))

\* REGEX_CACHE after the scan.
CacheAfter(filter, dataset, c) ==
  CacheInsert(c, UNION {Touched(filter, dataset[i], c) : i \in 1..ScanStop(filter, dataset, c)})

(***************************************************************************)
(* handle_transformations and compute_aggregate.                           *)
(***************************************************************************)
\* Rust's f32::round of a / n, n > 0: half away from zero.
RoundDiv(a, n) ==
  IF a >= 0 THEN (2 * a + n) \div (2 * n) ELSE -((2 * (-a) + n) \div (2 * n))

\* The sum of data[lo..hi] at `column` (halved ranges keep the evaluation
\* shallow; the sum is exact, so it is the sum of the loop).
RECURSIVE SumCol(_, _, _, _)
SumCol(data, column, lo, hi) ==
  IF lo > hi THEN 0
  ELSE IF lo = hi THEN data[lo][column].n
  ELSE LET mid == (lo + hi) \div 2
       IN SumCol(data, column, lo, mid) + SumCol(data, column, mid + 1, hi)

\* The loop stops at the first item whose column is missing or no Num.
\* MAX and MIN start from the infinities, which a group, never empty, leaves.
compute_aggregate(op, column, data) ==
  LET bad == {i \in 1..Len(data) : column \notin DOMAIN data[i] \/ data[i][column].t # "Num"}
      nums == {data[i][column].n : i \in 1..Len(data)}
  IN IF bad # {}
       THEN LET i == CHOOSE k \in bad : \A m \in bad : k <= m
            IN IF column \notin DOMAIN data[i] THEN Err("Column does not exist", column)
               ELSE Err("Invalid operation", column)
     ELSE Ok(CASE op = "avg" -> RoundDiv(SumCol(data, column, 1, Len(data)), Len(data))
               [] op = "sum" -> SumCol(data, column, 1, Len(data))
               [] op = "max" -> CHOOSE x \in nums : \A y \in nums : y <= x
               [] op = "min" -> CHOOSE x \in nums : \A y \in nums : x <= y)

\* One APPLY rule on the items of a group; the result is already rounded
\* to hundredths.
ApplyRule(aggregate, items) ==
  CASE aggregate.func = "COUNT" -> Ok(Len(items) * Scale)
    [] aggregate.func = "AVG" -> compute_aggregate("avg", aggregate.col, items)
    [] aggregate.func = "SUM" -> compute_aggregate("sum", aggregate.col, items)
    [] aggregate.func = "MAX" -> compute_aggregate("max", aggregate.col, items)
    [] aggregate.func = "MIN" -> compute_aggregate("min", aggregate.col, items)
    [] OTHER -> Err("Unknown function", aggregate.func)

\* The key of into_group_map_by: the BTreeMap of the GROUP columns.
GroupKey(group, course) == [g \in Range(group) |-> course[g]]

GroupKeys(group, rows) == {GroupKey(group, rows[i]) : i \in 1..Len(rows)}

\* try_fold over APPLY from the group's key: a later insert of a name
\* replaces an earlier one, and the fold ends at the first Err.
Folded(apply, group_keys, rs) ==
  IF HasErr(rs) THEN rs[FirstErr(rs)]
  ELSE Ok([col \in DOMAIN group_keys \cup {apply[r].key : r \in 1..Len(apply)} |->
             IF \E r \in 1..Len(apply) : apply[r].key = col
               THEN Num(rs[CHOOSE r \in 1..Len(apply) :
                             /\ apply[r].key = col
                             /\ \A m \in (r + 1)..Len(apply) : apply[m].key # col].v)
               ELSE group_keys[col]])

\* Every rule computed over all the rows, whatever the group.
GroupItems_all_rows(group, rows, group_keys) == rows

GroupItems(group, rows, group_keys) ==
  SelectSeq(rows, LAMBDA course : GroupKey(group, course) = group_keys)

GroupRow(transformations, rows, group_keys) ==
  Folded(transformations.apply, group_keys,
         [r \in 1..Len(transformations.apply) |->
            ApplyRule(transformations.apply[r], GroupItems(transformations.group, rows, group_keys))])

UnknownGroups(transformations, rows) ==
  {<<i, g>> \in (1..Len(rows)) \X (1..Len(transformations.group)) :
     transformations.group[g] \notin DOMAIN rows[i]}

FirstPair(S) ==
  CHOOSE u \in S : \A w \in S : u[1] < w[1] \/ (u[1] = w[1] /\ u[2] <= w[2])

\* .collect::<anyhow::Result<Vec<_>>>() of the group rows.
collect_rows(out) ==
  IF HasErr(out) THEN out[FirstErr(out)] ELSE Ok([k \in 1..Len(out) |-> out[k].v])

\* `grouped` is a HashMap: into_iter visits the groups in the order of its
\* hasher, `iter`, an order of the keys that no input of the query fixes.
handle_transformations(transformations, rows, iter) ==
  IF UnknownGroups(transformations, rows) # {}
    THEN Err("Unknown group", transformations.group[FirstPair(UnknownGroups(transformations, rows))[2]])
    ELSE collect_rows([k \in 1..Len(iter) |-> GroupRow(transformations, rows, iter[k])])

\* The orders in which a HashMap with the keys S may be iterated.
IterOrders(S) ==
  {iter \in [1..Cardinality(S) -> S] :
     \A i, j \in 1..Cardinality(S) : i # j => iter[i] # iter[j]}

(***************************************************************************)
(* execute_query, the projection onto OPTIONS.COLUMNS.                     *)
(***************************************************************************)
UnknownColumns(columns, rows) ==
  {<<i, c>> \in (1..Len(rows)) \X (1..Len(columns)) : columns[c] \notin DOMAIN rows[i]}

\* Project without the projection: the rows go out as they came in.
Project_whole_rows(columns, rows) ==
  IF UnknownColumns(columns, rows) # {}
    THEN Err("Unknown column", columns[FirstPair(UnknownColumns(columns, rows))[2]])
    ELSE Ok(rows)

Project(columns, rows) ==
  IF UnknownColumns(columns, rows) # {}
    THEN Err("Unknown column", columns[FirstPair(UnknownColumns(columns, rows))[2]])
    ELSE Ok([i \in 1..Len(rows) |-> [col \in Range(columns) |-> rows[i][col]]])

(***************************************************************************)
(* handle_order.                                                           *)
(***************************************************************************)
\* The macro sort!: a.get(key).unwrap().partial_cmp(b.get(key).unwrap()).unwrap()
sort(key, a, b) == CmpValue(a[key], b[key])

\* The comparator handed to sort_by.  MANY: the sort_funcs in the order of
\* `keys`, each with its arguments swapped when `reverse`; the first that is
\* not Equal decides.
Compare_never_reversed(order, a, b) ==
  IF order.kind = "ONE" THEN sort(order.col, a, b)
  ELSE LET sort_func(k) == sort(order.keys[k], a, b)
           decided == {k \in 1..Len(order.keys) : sort_func(k) # 0}
       IN IF decided = {} THEN 0
          ELSE sort_func(CHOOSE k \in decided : \A m \in decided : k <= m)

Compare(order, a, b) ==
  IF order.kind = "ONE" THEN sort(order.col, a, b)
  ELSE LET reverse == (order.dir = "DOWN")
           sort_func(k) == IF reverse THEN sort(order.keys[k], b, a)
                           ELSE sort(order.keys[k], a, b)
           decided == {k \in 1..Len(order.keys) : sort_func(k) # 0}
       IN IF decided = {} THEN 0
          ELSE sort_func(CHOOSE k \in decided : \A m \in decided : k <= m)

\* slice::sort_by, a stable sort: an element goes behind those that compare
\* Less than it and those that compare Equal and stood before it.
sort_by(rows, order) ==
  LET rank(i) == Cardinality({j \in 1..Len(rows) :
                    \/ Compare(order, rows[j], rows[i]) < 0
                    \/ (Compare(order, rows[j], rows[i]) = 0 /\ j < i)})
  IN [p \in 1..Len(rows) |-> rows[CHOOSE i \in 1..Len(rows) : rank(i) = p - 1]]

handle_order(order, rows) ==
  IF order.kind = "ONE"
    THEN IF \E i \in 1..Len(rows) : order.col \notin DOMAIN rows[i]
           THEN Err("Order column not found in results", order.col)
           ELSE Ok(sort_by(rows, order))
  ELSE IF order.dir \notin {"UP", "DOWN"}
    THEN Err("Invalid ordering, expected UP or DOWN", order.dir)
  ELSE LET missing == {k \in 1..Len(order.keys) :
                         \E i \in 1..Len(rows) : order.keys[k] \notin DOMAIN rows[i]}
       IN IF missing # {}
            THEN Err("Key not found", order.keys[CHOOSE k \in missing : \A m \in missing : k <= m])
            ELSE Ok(sort_by(rows, order))

(***************************************************************************)
(* The inputs of the model: the records of SECTIONS and the query texts.   *)
(***************************************************************************)
RecordPool == {Course("1", "adhe", 9800), Course("2", "biol", 9000), Course("3", "adhe", 9000)}

Datasets == UNION {[1..n -> RecordPool] : n \in 0..MaxRecords}

\* Long vectors: `lead` records of biol at 90.00, then adhe at 98.00.
BigDatasets ==
  {[i \in 1..n |-> IF i <= lead THEN Course("2", "biol", 9000) ELSE Course("1", "adhe", 9800)] :
     n \in (ResultCap - 1)..(ResultCap + MaxExtra), lead \in 0..1}

JStrs(ss) == JArr([i \in 1..Len(ss) |-> JStr(ss[i])])

EmptyObj == JObj(<<>>, <<>>)

GtAvg == JPair("GT", JPair("courses_avg", JNum(9000)))

LtAvg == JPair("LT", JPair("courses_avg", JNum(9500)))

IsDept(pattern) == JPair("IS", JPair("courses_dept", JStr(pattern)))

Patterns == {"a*", "adhe", "*he", "a*he"}

WhereInputs ==
  {EmptyObj, GtAvg, LtAvg, JPair("NOT", GtAvg), JPair("EQ", JPair("courses_avg", JNum(9000))),
   JPair("AND", JArr(<<>>)), JPair("OR", JArr(<<>>)), JPair("NOT", JPair("OR", JArr(<<>>))),
   JPair("AND", JArr(<<GtAvg, IsDept("adhe")>>)), JPair("OR", JArr(<<LtAvg, IsDept("adhe")>>)),
   JPair("LT", EmptyObj),
   JPair("LT", JObj(<<"courses_avg", "courses_pass">>, <<JNum(9500), JNum(0)>>)),
   JPair("GT", JPair("courses_avg", JStr("adhe"))),
   JPair("XOR", JArr(<<GtAvg>>)),
   JObj(<<"GT", "IS">>, <<JPair("courses_avg", JNum(9000)), JPair("courses_dept", JStr("adhe"))>>),
   JPair("GT", JPair("courses_dept", JNum(9000))),
   JPair("IS", JPair("courses_avg", JStr("adhe"))),
   JPair("LT", JPair("avg", JNum(9500))),
   JPair("NOT", JPair("GT", JPair("courses_dept", JNum(9000)))),
   JPair("NOT", JPair("NOT", JPair("IS", JPair("avg", JStr("adhe"))))),
   JStr("adhe")}
  \cup {IsDept(p) : p \in Patterns}

Columns(cs) == JObj(<<"COLUMNS">>, <<JStrs(cs)>>)

ColumnsOrder(cs, order) == JObj(<<"COLUMNS", "ORDER">>, <<JStrs(cs), order>>)

\* The keys of Order::MANY beside COLUMNS.
ColumnsDirKeys(cs, dir, keys) ==
  JObj(<<"COLUMNS", "dir", "keys">>, <<JStrs(cs), JStr(dir), JStrs(keys)>>)

DirKeys(dir, keys) == JObj(<<"dir", "keys">>, <<JStr(dir), JStrs(keys)>>)

DeptAvg == <<"courses_dept", "courses_avg">>

PlainOptions == Columns(DeptAvg)

OptionsInputs ==
  {PlainOptions,
   ColumnsOrder(DeptAvg, JStr("courses_avg")),
   ColumnsOrder(DeptAvg, JStr("courses_dept")),
   ColumnsOrder(<<"courses_dept">>, JStr("courses_avg")),
   ColumnsOrder(DeptAvg, DirKeys("DOWN", <<"courses_avg">>)),
   ColumnsDirKeys(DeptAvg, "UP", <<"courses_dept">>),
   ColumnsDirKeys(DeptAvg, "DOWN", <<"courses_dept">>),
   ColumnsDirKeys(DeptAvg, "UP", <<"courses_avg", "courses_dept">>),
   ColumnsDirKeys(DeptAvg, "DOWN", <<"courses_avg", "courses_dept">>),
   ColumnsDirKeys(DeptAvg, "SIDEWAYS", <<"courses_avg">>),
   ColumnsDirKeys(<<"courses_dept">>, "UP", <<"courses_avg">>),
   Columns(<<"courses_dept", "avg">>),
   JObj(<<"ORDER">>, <<JStr("courses_avg")>>)}

Apply(out, func, column) == JPair(out, JPair(func, JStr(column)))

Transformation(group, apply) == JObj(<<"GROUP", "APPLY">>, <<JStrs(group), JArr(apply)>>)

TransformationsInputs ==
  {Transformation(<<"courses_dept">>, <<Apply("overall", "AVG", "courses_avg")>>),
   Transformation(<<"courses_dept">>, <<Apply("count", "COUNT", "courses_uuid"),
                                        Apply("overall", "MAX", "courses_avg")>>),
   Transformation(<<"courses_avg">>, <<Apply("overall", "SUM", "courses_avg")>>)}

GroupedOptionsInputs ==
  {Columns(<<"courses_dept", "overall">>),
   Columns(<<"courses_dept">>),
   Columns(<<"overall">>),
   ColumnsOrder(<<"courses_dept", "overall">>, JStr("courses_dept")),
   ColumnsDirKeys(<<"overall">>, "UP", <<"overall">>),
   Columns(DeptAvg)}

GroupedQuery(where, columns, group, apply) ==
  JObj(<<"WHERE", "OPTIONS", "TRANSFORMATIONS">>,
       <<where, Columns(columns), Transformation(group, apply)>>)

\* Grouped queries whose COLUMNS are all of GROUP and the APPLY names.
GroupedQueries ==
  {GroupedQuery(w, <<"courses_dept", "count", "total", "high", "low">>, <<"courses_dept">>,
                <<Apply("count", "COUNT", "courses_dept"), Apply("total", "SUM", "courses_avg"),
                  Apply("high", "MAX", "courses_avg"), Apply("low", "MIN", "courses_avg")>>) :
     w \in {EmptyObj, GtAvg}}
  \cup {GroupedQuery(EmptyObj, <<"courses_dept", "courses_avg", "count">>,
                     <<"courses_dept", "courses_avg">>, <<Apply("count", "COUNT", "nothing")>>),
        GroupedQuery(EmptyObj, <<"courses_dept">>, <<"courses_dept">>,
                     <<Apply("courses_dept", "COUNT", "courses_uuid")>>),
        GroupedQuery(EmptyObj, <<"courses_dept", "count">>, <<"courses_dept">>,
                     <<Apply("count", "COUNT", "courses_uuid"), Apply("count", "MAX", "courses_avg")>>)}

QueryJson(where, options) == JObj(<<"WHERE", "OPTIONS">>, <<where, options>>)

Queries ==
  {QueryJson(w, PlainOptions) : w \in WhereInputs}
  \cup {QueryJson(w, o) : w \in {EmptyObj, GtAvg}, o \in OptionsInputs}
  \cup {JObj(<<"WHERE", "OPTIONS", "TRANSFORMATIONS">>, <<w, o, t>>) :
          w \in {EmptyObj, GtAvg}, o \in GroupedOptionsInputs, t \in TransformationsInputs}
  \cup {JObj(<<"OPTIONS">>, <<o>>) : o \in {PlainOptions, ColumnsOrder(DeptAvg, JStr("courses_avg"))}}
  \cup {JObj(<<"WHERE", "OPTIONS", "HAVING">>, <<w, PlainOptions, JStr("blank")>>) :
          w \in {GtAvg, JPair("GT", JPair("courses_avg", JStr("adhe")))}}
  \cup {JObj(<<"WHERE">>, <<GtAvg>>)}
  \cup GroupedQueries

\* SpecCap: queries on the long vectors (no ORDER, no SUM or AVG).
CapQueries ==
  {QueryJson(w, PlainOptions) : w \in {EmptyObj, GtAvg, JPair("LT", JPair("avg", JNum(9500)))}}
  \cup {JObj(<<"WHERE", "OPTIONS", "TRANSFORMATIONS">>,
             <<w, Columns(<<"courses_dept", "count">>),
               Transformation(<<"courses_dept">>, <<Apply("count", "COUNT", "courses_uuid")>>)>>) :
          w \in {EmptyObj, GtAvg}}

(***************************************************************************)
(* The request handler query_courses (src/src/main.rs) as a state machine: *)
(* a request arrives with its q, the text is parsed, the query is          *)
(* executed on SECTIONS, the result is wrapped and sent.                   *)
(***************************************************************************)
None == Err("None", "")

NoRequest == JStr("")

\* A request arrives; `prev` keeps the previous response when that one
\* answered the same text.
Receive(j) ==
  /\ pc = "idle"
  /\ pc' = "parse"
  /\ json' = j
  /\ prev' = IF j = json THEN result ELSE None
  /\ query' = None
  /\ columns_result' = <<>>
  /\ result' = None
  /\ UNCHANGED <<sections, cache, threads, lock>>

\* serde_json::from_str::<Query>(&json)
Parse ==
  /\ pc = "parse"
  /\ query' = DeQuery(json)
  /\ IF query'.ok
       THEN pc' = "execute" /\ UNCHANGED result
       ELSE pc' = "respond" /\ result' = query'
  /\ UNCHANGED <<sections, cache, json, columns_result, prev, threads, lock>>

\* execute_query up to the projection (query.rs 331-380); `iter` is the
\* order in which the HashMap of the groups is iterated.
transform(q, filtered, iter) ==
  IF filtered.ok /\ q.transformations.some
    THEN handle_transformations(q.transformations, filtered.v, iter)
    ELSE filtered

project(q, transformed) ==
  IF transformed.ok THEN Project(q.options.columns, transformed.v) ELSE transformed

projected(q, dataset, c, iter) ==
  project(q, transform(q, filter_result(q.where, dataset, c), iter))

\* The keys of `grouped` (none when the scan fails).
grouped(q, filtered) ==
  IF filtered.ok THEN GroupKeys(q.transformations.group, filtered.v) ELSE {}

Executed(p) ==
  /\ pc' = IF p.ok THEN "order" ELSE "respond"
  /\ columns_result' = p.v
  /\ result' = IF p.ok THEN result ELSE p

Execute ==
  /\ pc = "execute"
  /\ cache' = CacheAfter(query.v.where, sections, cache)
  /\ \E iter \in IterOrders(grouped(query.v, filter_result(query.v.where, sections, cache))) :
       Executed(projected(query.v, sections, cache, iter))
  /\ UNCHANGED <<sections, json, query, prev, threads, lock>>

\* execute_query from `if let Some(order)` on (query.rs 382-386).
ordered(order, rows) ==
  IF order.kind = "NONE" THEN Ok(rows) ELSE handle_order(order, rows)

Ordered(o) ==
  /\ result' = o
  /\ columns_result' = IF o.ok THEN o.v ELSE columns_result
  /\ pc' = "respond"

OrderRows ==
  /\ pc = "order"
  /\ Ordered(ordered(query.v.options.order, columns_result))
  /\ UNCHANGED <<sections, cache, json, query, prev, threads, lock>>

\* QueryResult::OK { result } or QueryResult::ERROR { error } goes out.
Respond ==
  /\ pc = "respond"
  /\ pc' = "idle"
  /\ UNCHANGED <<sections, cache, json, query, columns_result, result, prev, threads, lock>>

Init ==
  /\ sections \in Datasets
  /\ cache = EmptyCache
  /\ pc = "idle"
  /\ json = NoRequest
  /\ query = None
  /\ columns_result = <<>>
  /\ result = None
  /\ prev = None
  /\ threads = <<>>
  /\ lock = 0

Request == \E j \in Queries : Receive(j)

Next == Request \/ Parse \/ Execute \/ OrderRows \/ Respond

Spec == Init /\ [][Next]_vars

\* The same handler on long vectors, for the 5000-row cap.
InitCap ==
  /\ sections \in BigDatasets
  /\ cache = EmptyCache
  /\ pc = "idle"
  /\ json = NoRequest
  /\ query = None
  /\ columns_result = <<>>
  /\ result = None
  /\ prev = None
  /\ threads = <<>>
  /\ lock = 0

RequestCap == \E j \in CapQueries : Receive(j)

NextCap == RequestCap \/ Parse \/ Execute \/ OrderRows \/ Respond

SpecCap == InitCap /\ [][NextCap]_vars

(***************************************************************************)
(* get on its own: one record, section or room, and one column name.       *)
(***************************************************************************)
RoomPool == {Room("adhe", "310", 4000), Room("biol", "1", 20000)}

CourseFields ==
  {"uuid", "id", "title", "instructor", "dept", "year", "avg", "pass", "fail", "audit"}

RoomFields ==
  {"fullname", "shortname", "number", "name", "address", "type", "furniture", "href", "seats"}

Prefixed(prefix, field) ==
  CASE prefix = "courses_" ->
         (CASE field = "uuid" -> "courses_uuid" [] field = "id" -> "courses_id"
            [] field = "title" -> "courses_title" [] field = "instructor" -> "courses_instructor"
            [] field = "dept" -> "courses_dept" [] field = "year" -> "courses_year"
            [] field = "avg" -> "courses_avg" [] field = "pass" -> "courses_pass"
            [] field = "fail" -> "courses_fail" [] field = "audit" -> "courses_audit")
    [] prefix = "sections_" ->
         (CASE field = "uuid" -> "sections_uuid" [] field = "id" -> "sections_id"
            [] field = "title" -> "sections_title" [] field = "instructor" -> "sections_instructor"
            [] field = "dept" -> "sections_dept" [] field = "year" -> "sections_year"
            [] field = "avg" -> "sections_avg" [] field = "pass" -> "sections_pass"
            [] field = "fail" -> "sections_fail" [] field = "audit" -> "sections_audit")
    [] prefix = "rooms_" ->
         (CASE field = "fullname" -> "rooms_fullname" [] field = "shortname" -> "rooms_shortname"
            [] field = "number" -> "rooms_number" [] field = "name" -> "rooms_name"
            [] field = "address" -> "rooms_address" [] field = "type" -> "rooms_type"
            [] field = "furniture" -> "rooms_furniture" [] field = "href" -> "rooms_href"
            [] field = "seats" -> "rooms_seats")

FieldNames ==
  {Prefixed("courses_", f) : f \in CourseFields}
  \cup {Prefixed("sections_", f) : f \in CourseFields}
  \cup {Prefixed("rooms_", f) : f \in RoomFields}
  \cup {"rooms_r#type", "courses_AVG", "sections_AVG", "rooms_SEATS", "avg", "seats", ""}

\* The record is sections[1], the name asked for is the text of json.
InitGet ==
  /\ sections \in {<<item>> : item \in RecordPool \cup RoomPool}
  /\ json \in {JStr(name) : name \in FieldNames}
  /\ cache = EmptyCache
  /\ pc = "get"
  /\ query = None
  /\ columns_result = <<>>
  /\ result = None
  /\ prev = None
  /\ threads = <<>>
  /\ lock = 0

GetField ==
  /\ pc = "get"
  /\ result' = DatasetGet(sections[1], json.s)
  /\ pc' = "got"
  /\ UNCHANGED <<sections, cache, json, query, columns_result, prev, threads, lock>>

NextGet == GetField

SpecGet == InitGet /\ [][NextGet]_vars

(***************************************************************************)
(* The filter closure on its own: one record (sections[1]) and one parsed  *)
(* filter (query.v.where).  A step calls the closure of the filter, or of  *)
(* AND[f, f], OR[f, f] or NOT{NOT{f}}, on the record: `result` is what it  *)
(* returns, `prev` what the closure of f itself returns, and REGEX_CACHE   *)
(* keeps what the call compiled.                                           *)
(***************************************************************************)
Leaf(op, key, num, str) == Filter(op, <<>>, KVPair(key, num, str))

LeafFilters ==
  {Filter("EMPTY", <<>>, NoKV),
   Leaf("GT", "courses_avg", 9000, ""), Leaf("LT", "courses_avg", 9500, ""),
   Leaf("EQ", "courses_avg", 9000, ""),
   Leaf("IS", "courses_dept", 0, "adhe"), Leaf("IS", "courses_dept", 0, "a*"),
   Leaf("GT", "courses_dept", 9000, ""), Leaf("IS", "courses_avg", 0, "adhe"),
   Leaf("LT", "avg", 9500, ""), Leaf("IS", "dept", 0, "adhe")}

Filters ==
  LeafFilters
  \cup {Filter("NOT", <<f>>, NoKV) : f \in LeafFilters}
  \cup {Filter(op, <<f, g>>, NoKV) : op \in {"AND", "OR"}, f \in LeafFilters, g \in LeafFilters}

QueryOf(filter) ==
  Ok([where |-> filter, options |-> [columns |-> DeptAvg, order |-> NoOrder],
      transformations |-> NoTransformations])

InitEval ==
  /\ sections \in {<<item>> : item \in RecordPool}
  /\ query \in {QueryOf(f) : f \in Filters}
  /\ cache = EmptyCache
  /\ pc = "filter"
  /\ json = NoRequest
  /\ columns_result = <<>>
  /\ result = None
  /\ prev = None
  /\ threads = <<>>
  /\ lock = 0

Call(filter, to) ==
  /\ pc = "filter"
  /\ pc' = to
  /\ result' = parse_filter(filter, sections[1], cache)
  /\ prev' = parse_filter(query.v.where, sections[1], cache)
  /\ cache' = CacheInsert(cache, Touched(filter, sections[1], cache))
  /\ UNCHANGED <<sections, json, query, columns_result, threads, lock>>

CallFilter == Call(query.v.where, "called")

CallAnd == Call(Filter("AND", <<query.v.where, query.v.where>>, NoKV), "and")

CallOr == Call(Filter("OR", <<query.v.where, query.v.where>>, NoKV), "or")

CallNotNot == Call(Filter("NOT", <<Filter("NOT", <<query.v.where>>, NoKV)>>, NoKV), "notnot")

\* The closure is called again, with the cache as the last call left it.
Again ==
  /\ pc \in {"called", "and", "or", "notnot"}
  /\ pc' = "filter"
  /\ UNCHANGED <<sections, cache, json, query, columns_result, result, prev, threads, lock>>

NextEval == CallFilter \/ CallAnd \/ CallOr \/ CallNotNot \/ Again

SpecEval == InitEval /\ [][NextEval]_vars

(***************************************************************************)
(* Concurrent requests: threads of the server that each evaluate IS        *)
(* closures (query.rs 140-158) on a Str column, one pattern of `job` after *)
(* the other on the text s.  An evaluation takes the mutex of REGEX_CACHE, *)
(* looks its pattern up (compiling and inserting it when absent), matches, *)
(* and gives the mutex back when the guard goes out of scope: at the `?`   *)
(* for a pattern that did not compile, else at the end of the arm.         *)
(***************************************************************************)
Workers == {1, 2}

CachePatterns == {"a*", "adhe", "("}

Jobs == {<<p, q>> : p \in CachePatterns, q \in CachePatterns}

Thread(job, s) == [job |-> job, s |-> s, at |-> 1, pc |-> "is", regex |-> None, out |-> <<>>]

InitCache ==
  /\ threads \in [Workers -> {Thread(job, s) : job \in Jobs, s \in {"adhe", "biol"}}]
  /\ lock = 0
  /\ cache = EmptyCache
  /\ sections = <<>>
  /\ pc = "threads"
  /\ json = NoRequest
  /\ query = None
  /\ columns_result = <<>>
  /\ result = None
  /\ prev = None

Val(w) == threads[w].job[threads[w].at]

\* let mut cache = REGEX_CACHE.lock().unwrap();
Lock(w) ==
  /\ threads[w].pc = "is"
  /\ threads[w].at <= Len(threads[w].job)
  /\ lock = 0
  /\ lock' = w
  /\ threads' = [threads EXCEPT ![w].pc = "entry"]
  /\ UNCHANGED <<sections, cache, pc, json, query, columns_result, result, prev>>

\* The evaluation is over: its result goes to `out`, the guard is dropped.
Return(w, r) ==
  /\ threads' = [threads EXCEPT ![w].pc = "is", ![w].at = @ + 1, ![w].regex = None,
                                ![w].out = Append(@, r)]
  /\ lock' = 0

\* cache.entry(val.clone()).or_insert_with(|| Regex::new(..)).clone()?
Entry(w) ==
  /\ threads[w].pc = "entry"
  /\ lock = w
  /\ cache' = CacheInsert(cache, {Val(w)})
  /\ IF CacheEntry(cache, Val(w)).ok
       THEN /\ threads' = [threads EXCEPT ![w].pc = "match", ![w].regex = CacheEntry(cache, Val(w))]
            /\ UNCHANGED lock
       ELSE Return(w, CacheEntry(cache, Val(w)))
  /\ UNCHANGED <<sections, pc, json, query, columns_result, result, prev>>

\* Ok(regex.is_match(&s))
Match(w) ==
  /\ threads[w].pc = "match"
  /\ lock = w
  /\ Return(w, is_regex(threads[w].regex, threads[w].s))
  /\ UNCHANGED <<sections, cache, pc, json, query, columns_result, result, prev>>

NextCache == \E w \in Workers : Lock(w) \/ Entry(w) \/ Match(w)

SpecCache == InitCache /\ [][NextCache]_vars

(***************************************************************************)
(* The properties.                                                         *)
(***************************************************************************)
Responding == pc = "respond" /\ query.ok

\* The records of SECTIONS on which the WHERE filter is Ok(true) / an Err.
Passers == {i \in 1..Len(sections) : LET r == parse_filter(query.v.where, sections[i], cache)
                                     IN r.ok /\ r.v}

FilterErrs == {i \in 1..Len(sections) : ~parse_filter(query.v.where, sections[i], cache).ok}

TooLarge == Err("Result too large", "")

\* A query that can fail in the scan only: no TRANSFORMATIONS, no ORDER, and
\* every name in COLUMNS a column of the dataset.
PlainQuery ==
  /\ ~query.v.transformations.some
  /\ query.v.options.order.kind = "NONE"
  /\ Range(query.v.options.columns) \subseteq Range(GetAll)

\* C1: a query returns at most 5000 rows or fails; with 5001 or more
\* passing records (and no filter error) it fails with "Result too large",
\* TRANSFORMATIONS or not; with at most 5000 it does not fail so, and a
\* query with nothing else to fail on returns one row per passing record.
C1_ResultCap ==
  Responding =>
    /\ result.ok => Len(result.v) <= ResultCap
    /\ (FilterErrs = {} /\ Cardinality(Passers) >= ResultCap + 1) => result = TooLarge
    /\ Cardinality(Passers) <= ResultCap => result # TooLarge
    /\ (FilterErrs = {} /\ Cardinality(Passers) <= ResultCap /\ PlainQuery) =>
         (result.ok /\ Len(result.v) = Cardinality(Passers))

\* 5001 records pass a query whose grouping would leave one row.
C1_Witness ==
  /\ Responding
  /\ query.v.transformations.some
  /\ Cardinality(Passers) = ResultCap + 1
  /\ Cardinality(GroupKeys(query.v.transformations.group, [i \in 1..Len(sections) |-> Row(sections[i])])) = 1
  /\ result = TooLarge

\* C2: two executions of the same query on the same dataset return the
\* same response (the same rows in the same order).
C2_Deterministic == (pc = "respond" /\ prev # None) => result = prev

\* C3 (as amended): every returned row has exactly the names of
\* OPTIONS.COLUMNS as its keys, with TRANSFORMATIONS and without.
C3_RowKeysAreColumns ==
  (Responding /\ result.ok) =>
    \A i \in 1..Len(result.v) : DOMAIN result.v[i] = Range(query.v.options.columns)

GroupAndApply ==
  Range(query.v.transformations.group)
    \cup {query.v.transformations.apply[r].key : r \in 1..Len(query.v.transformations.apply)}

\* C3 as the spec states it: with TRANSFORMATIONS and COLUMNS within
\* GROUP and the APPLY names, the keys of a row are GROUP and the APPLY names.
C3_RowKeysAreGroupAndApply ==
  (Responding /\ result.ok) =>
    \A i \in 1..Len(result.v) :
      IF query.v.transformations.some
        THEN Range(query.v.options.columns) \subseteq GroupAndApply
               => DOMAIN result.v[i] = GroupAndApply
        ELSE DOMAIN result.v[i] = Range(query.v.options.columns)

\* A grouped query whose COLUMNS leaves out a GROUP or APPLY name returns rows.
C3_Witness ==
  /\ Responding /\ result.ok
  /\ query.v.transformations.some
  /\ Len(result.v) > 0
  /\ Range(query.v.options.columns) \subseteq GroupAndApply
  /\ Range(query.v.options.columns) # GroupAndApply

\* The request has been parsed: `query` is what serde made of `json`.
Parsed == pc \in {"execute", "order", "respond"}

\* The query text with "WHERE": {} put in front.
WithEmptyWhere(j) == JObj(<<"WHERE">> \o j.keys, <<EmptyObj>> \o j.a)

\* C4: a query object without a WHERE key parses, to the query that the
\* same object with "WHERE": {} parses to (so it returns the same result).
C4_WhereOptional ==
  (Parsed /\ json.k = "obj" /\ ~HasKey(json, "WHERE")) =>
    (query.ok /\ query = DeQuery(WithEmptyWhere(json)))

TopLevelKeys == {"WHERE", "OPTIONS", "TRANSFORMATIONS"}

\* C5: a query object with a top-level key other than WHERE, OPTIONS and
\* TRANSFORMATIONS fails to parse, whatever the rest of it is.
C5_UnknownKeyRejected ==
  (Parsed /\ json.k = "obj" /\ Range(json.keys) \ TopLevelKeys # {}) =>
    (~query.ok /\ query.err = "ParseError")

\* A filter text with {"AND": []} or {"OR": []} at some depth.
RECURSIVE HasEmptyJunction(_)
HasEmptyJunction(j) ==
  /\ j.k = "obj"
  /\ \E i \in 1..Len(j.keys) :
       \/ /\ j.keys[i] \in {"AND", "OR"}
          /\ j.a[i].k = "arr"
          /\ (Len(j.a[i].a) = 0 \/ \E m \in 1..Len(j.a[i].a) : HasEmptyJunction(j.a[i].a[m]))
       \/ (j.keys[i] = "NOT" /\ HasEmptyJunction(j.a[i]))

\* C6: a WHERE with an empty AND or OR array at any depth is rejected when
\* the query is parsed.
C6_EmptyJunctionRejected ==
  (Parsed /\ HasKey(json, "WHERE") /\ HasEmptyJunction(At(json, "WHERE"))) =>
    (~query.ok /\ query.err = "ParseError")

FilterOperators == {"AND", "OR", "NOT", "LT", "GT", "EQ", "IS"}

\* The objects the grammar has no form for: one key that is no operator,
\* several keys, a comparison whose operand object has not one entry or has
\* a string for its number.
OutOfGrammar(j) ==
  /\ j.k = "obj"
  /\ \/ Len(j.keys) > 1
     \/ (Len(j.keys) = 1 /\ j.keys[1] \notin FilterOperators)
     \/ /\ Len(j.keys) = 1
        /\ j.keys[1] \in {"LT", "GT", "EQ"}
        /\ j.a[1].k = "obj"
        /\ (Len(j.a[1].keys) # 1 \/ j.a[1].a[1].k = "str")

\* C7: a WHERE object outside the grammar is rejected at parse, and only
\* the empty object {} is parsed as match-all.
C7_GrammarOnly ==
  (Parsed /\ HasKey(json, "WHERE")) =>
    /\ OutOfGrammar(At(json, "WHERE")) => (~query.ok /\ query.err = "ParseError")
    /\ (query.ok /\ query.v.where.op = "EMPTY") => At(json, "WHERE") = EmptyObj

\* OPTIONS of the request is {"COLUMNS": [...], "ORDER": "col"}.
SingleOrder ==
  /\ json.k = "obj" /\ Once(json, "OPTIONS")
  /\ At(json, "OPTIONS").k = "obj"
  /\ Range(At(json, "OPTIONS").keys) = {"COLUMNS", "ORDER"}
  /\ Once(At(json, "OPTIONS"), "ORDER")
  /\ At(At(json, "OPTIONS"), "ORDER").k = "str"

OrderColumn == At(At(json, "OPTIONS"), "ORDER").s

\* C8: with OPTIONS {"COLUMNS": [...], "ORDER": "col"} a query that
\* returns rows returns them with col in every row and ascending by the
\* value at col (a row without col is an order error instead).
C8_SingleOrderAscending ==
  (Responding /\ SingleOrder /\ result.ok) =>
    /\ \A i \in 1..Len(result.v) : OrderColumn \in DOMAIN result.v[i]
    /\ \A i, j \in 1..Len(result.v) :
         i < j => CmpValue(result.v[i][OrderColumn], result.v[j][OrderColumn]) <= 0

\* The lexicographic comparison of two rows by the values at `keys`.
LexCmp(keys, a, b) ==
  IF \A k \in 1..Len(keys) : a[keys[k]] = b[keys[k]] THEN 0
  ELSE CmpValue(a[keys[Least({k \in 1..Len(keys) : a[keys[k]] # b[keys[k]]})]],
                b[keys[Least({k \in 1..Len(keys) : a[keys[k]] # b[keys[k]]})]])

KeyTuple(keys, row) == [k \in 1..Len(keys) |-> row[keys[k]]]

\* `out` is `in` sorted by `keys` in direction `dir`, ties in input order:
\* sorted, and for every tuple of key values the rows that have it are the
\* same and in the same order in `out` as in `in`.
StablySorted(in, out, dir, keys) ==
  /\ Len(out) = Len(in)
  /\ \A i, j \in 1..Len(out) :
       i < j => IF dir = "UP" THEN LexCmp(keys, out[i], out[j]) <= 0
                ELSE LexCmp(keys, out[i], out[j]) >= 0
  /\ \A i \in 1..Len(in) :
       SelectSeq(out, LAMBDA r : KeyTuple(keys, r) = KeyTuple(keys, in[i]))
         = SelectSeq(in, LAMBDA r : KeyTuple(keys, r) = KeyTuple(keys, in[i]))

ManyOrderStep ==
  IF query.v.options.order.dir \notin {"UP", "DOWN"}
    THEN ~result'.ok /\ result'.err = "Invalid ordering, expected UP or DOWN"
  ELSE IF \A i \in 1..Len(columns_result) :
            Range(query.v.options.order.keys) \subseteq DOMAIN columns_result[i]
    THEN /\ result'.ok
         /\ StablySorted(columns_result, result'.v, query.v.options.order.dir,
                         query.v.options.order.keys)
  ELSE ~result'.ok

\* C9: the step that applies a multi-key order {dir, keys} to the result
\* rows leaves a permutation of them sorted lexicographically by the keys in
\* array order, ascending for UP and descending for DOWN, rows equal on all
\* keys in their input order; a dir other than UP or DOWN fails with the
\* invalid-ordering error.
C9_MultiKeyOrder ==
  [][(pc = "order" /\ query.v.options.order.kind = "MANY") => ManyOrderStep]_vars

\* A DOWN order has been applied to two different rows equal on its keys.
C9_Witness ==
  /\ Responding /\ result.ok
  /\ query.v.options.order.kind = "MANY"
  /\ query.v.options.order.dir = "DOWN"
  /\ \E i, j \in 1..Len(result.v) :
       /\ i < j
       /\ result.v[i] # result.v[j]
       /\ KeyTuple(query.v.options.order.keys, result.v[i])
            = KeyTuple(query.v.options.order.keys, result.v[j])

\* The wildcard reading of an IS pattern: a literal with an optional '*'
\* in front and an optional '*' behind.
InteriorStar(p) == \E i \in 2..(Len(Chars(p)) - 1) : Chars(p)[i] = "*"

Literal(P) ==
  SubSeq(P, (IF Len(P) > 0 /\ P[1] = "*" THEN 2 ELSE 1),
            (IF Len(P) > 1 /\ P[Len(P)] = "*" THEN Len(P) - 1 ELSE Len(P)))

Occurs(lit, S, at) == at + Len(lit) - 1 <= Len(S) /\ SubSeq(S, at, at + Len(lit) - 1) = lit

WildcardOf(P, lit, S) ==
  \E at \in 1..(Len(S) + 1) :
    /\ Occurs(lit, S, at)
    /\ (Len(P) > 0 /\ P[1] = "*") \/ at = 1
    /\ (Len(P) > 0 /\ P[Len(P)] = "*") \/ at + Len(lit) - 1 = Len(S)

Wildcard(p, s) == WildcardOf(Chars(p), Literal(Chars(p)), Chars(s))

\* C10: IS{courses_dept: p} fails on a pattern with a '*' inside it;
\* otherwise it passes exactly the records whose dept equals, ends with,
\* starts with or contains the literal of p.
C10_IsWildcard ==
  (/\ Responding /\ PlainQuery /\ Len(sections) > 0
   /\ query.v.where.op = "IS" /\ query.v.where.key = "courses_dept") =>
    IF InteriorStar(query.v.where.str) THEN ~result.ok
    ELSE /\ result.ok
         /\ Len(result.v)
              = Cardinality({i \in 1..Len(sections) : Wildcard(query.v.where.str, sections[i].dept)})

\* The names the record's get is to answer: "sections_" or "rooms_" and a
\* field of the record.
ContractNames(item) ==
  IF IsRoom(item) THEN {Prefixed("rooms_", f) : f \in RoomFields}
  ELSE {Prefixed("sections_", f) : f \in CourseFields}

\* C11: get(name) on a section succeeds exactly for "sections_" + a field
\* of a section, on a room exactly for "rooms_" + a field of a room, and
\* get succeeds for every name of columns().
C11_GetNames ==
  pc = "got" =>
    /\ result.ok <=> json.s \in ContractNames(sections[1])
    /\ json.s \in Range(DatasetGetAll(sections[1])) => result.ok

\* The columns a row has before the projection.
AvailableColumns ==
  IF query.v.transformations.some THEN GroupAndApply ELSE Range(GetAll)

\* The messages of the FieldNotFound kind.
FieldNotFound == {"Unknown column", "Field does not exist", "Column does not exist", "Unknown group"}

\* C12: a query whose COLUMNS has a name that is no column of the dataset
\* (with TRANSFORMATIONS: neither in GROUP nor an APPLY name) fails with
\* FieldNotFound, also when no record passes the filter.
C12_UnknownColumnFails ==
  (Responding /\ FilterErrs = {} /\ ~(Range(query.v.options.columns) \subseteq AvailableColumns)) =>
    (~result.ok /\ result.err \in FieldNotFound)

\* C13: on a record on which f evaluates without error, AND[f, f],
\* OR[f, f] and NOT{NOT{f}} evaluate without error to the boolean of f.
C13_Idempotent ==
  (pc \in {"and", "or", "notnot"} /\ prev.ok) => (result.ok /\ result.v = prev.v)

\* AND[f, f] has been evaluated for an f that is true on the record and
\* that is itself an OR of a false and a true child.
C13_Witness ==
  /\ pc = "and"
  /\ query.v.where.op = "OR"
  /\ parse_filter(query.v.where.subs[1], sections[1], cache).ok
  /\ ~parse_filter(query.v.where.subs[1], sections[1], cache).v
  /\ prev.ok /\ prev.v
  /\ result.ok /\ result.v

\* The tuple of GROUP-column values of the i-th record, and of a row.
TupleOf(i) == [g \in Range(query.v.transformations.group) |-> Get(sections[i], g).v]

Tuples == {TupleOf(i) : i \in Passers}

RowTuple(row) == [g \in Range(query.v.transformations.group) |-> row[g]]

\* The passing records with the tuple t.
Members(t) == {i \in Passers : TupleOf(i) = t}

RECURSIVE SumOver(_, _)
SumOver(S, column) ==
  IF S = {} THEN 0
  ELSE SumOver(S \ {Least(S)}, column) + Get(sections[Least(S)], column).v.n

ValuesOver(S, column) == {Get(sections[i], column).v.n : i \in S}

\* What a COUNT / SUM / MAX / MIN rule is over the records S, in hundredths.
Expected(rule, S) ==
  CASE rule.func = "COUNT" -> Cardinality(S) * Scale
    [] rule.func = "SUM" -> SumOver(S, rule.col)
    [] rule.func = "MAX" -> CHOOSE x \in ValuesOver(S, rule.col) : \A y \in ValuesOver(S, rule.col) : y <= x
    [] rule.func = "MIN" -> CHOOSE x \in ValuesOver(S, rule.col) : \A y \in ValuesOver(S, rule.col) : x <= y

Rules == {r \in 1..Len(query.v.transformations.apply) :
            query.v.transformations.apply[r].func \in {"COUNT", "SUM", "MAX", "MIN"}}

\* The rules whose name no later rule has.
LastRules == {r \in Rules : \A m \in (r + 1)..Len(query.v.transformations.apply) :
                query.v.transformations.apply[m].key # query.v.transformations.apply[r].key}

RECURSIVE SumRows(_, _)
SumRows(name, n) == IF n = 0 THEN 0 ELSE SumRows(name, n - 1) + result.v[n][name].n

\* A grouped query that returned rows with every GROUP and APPLY name kept.
GroupingOutput ==
  /\ Responding /\ result.ok
  /\ query.v.transformations.some
  /\ Range(query.v.options.columns) = GroupAndApply

\* One row for each tuple of GROUP values among the passing records, the
\* rules R of a row computed over the passing records with the row's tuple.
GroupRows(R) ==
  /\ Len(result.v) = Cardinality(Tuples)
  /\ \A t \in Tuples : Cardinality({i \in 1..Len(result.v) : RowTuple(result.v[i]) = t}) = 1
  /\ \A i \in 1..Len(result.v) : \A r \in R :
       result.v[i][query.v.transformations.apply[r].key]
         = Num(Expected(query.v.transformations.apply[r], Members(RowTuple(result.v[i]))))
  /\ \A r \in R : query.v.transformations.apply[r].func = "COUNT" =>
       SumRows(query.v.transformations.apply[r].key, Len(result.v)) = Cardinality(Passers) * Scale

\* C14 as the spec states it: the grouping output has one row for each
\* tuple of GROUP values among the passing records, with the tuple's values
\* at the GROUP columns and every COUNT / SUM / MAX / MIN rule computed
\* over the passing records of that tuple; the COUNTs sum to the passers.
C14_GroupRowsEveryRule == GroupingOutput => GroupRows(Rules)

ApplyNames == {query.v.transformations.apply[r].key : r \in 1..Len(query.v.transformations.apply)}

\* C14 (as amended): the same, when no APPLY name is a GROUP column, for
\* the last rule of every APPLY name.
C14_GroupRows ==
  (GroupingOutput /\ ApplyNames \cap Range(query.v.transformations.group) = {}) =>
    GroupRows(LastRules)

\* A group of two records that differ in the aggregated column, with COUNT,
\* SUM, MAX and MIN in its row.
C14_Witness ==
  /\ GroupingOutput
  /\ ApplyNames \cap Range(query.v.transformations.group) = {}
  /\ Len(result.v) = 1
  /\ Cardinality(Passers) = 2
  /\ Cardinality({sections[i].avg : i \in Passers}) = 2
  /\ {query.v.transformations.apply[r].func : r \in LastRules} = {"COUNT", "SUM", "MAX", "MIN"}

NumColumns == {"courses_year", "courses_avg", "courses_pass", "courses_fail", "courses_audit"}

StrColumns == {"courses_uuid", "courses_id", "courses_title", "courses_instructor", "courses_dept"}

\* The leaf under a chain of NOTs.
RECURSIVE LeafUnder(_)
LeafUnder(filter) == IF filter.op = "NOT" THEN LeafUnder(filter.subs[1]) ELSE filter

\* The error a leaf is to raise on a section record, "" when none.
LeafError(leaf) ==
  IF leaf.op \in {"LT", "GT", "EQ"}
    THEN (IF leaf.key \in StrColumns THEN "TypeError"
          ELSE IF leaf.key \in NumColumns THEN "" ELSE "FieldNotFound")
  ELSE IF leaf.op = "IS"
    THEN (IF leaf.key \in NumColumns THEN "TypeError"
          ELSE IF leaf.key \in StrColumns THEN "" ELSE "FieldNotFound")
  ELSE ""

ErrorKind(err) ==
  CASE err = "Operation is not valid" -> "TypeError"
    [] err = "Field does not exist" -> "FieldNotFound"
    [] OTHER -> err

\* C15: a query whose filter reaches, on a scanned record, a comparison on
\* a Str column or an IS on a Num column fails with a TypeError, one whose
\* leaf names no column of the record with FieldNotFound, through any NOT
\* above the leaf; a filter error on a scanned record is the query's
\* result, and no rows are returned.
C15_FilterErrors ==
  (Responding /\ Len(sections) > 0) =>
    /\ LeafError(LeafUnder(query.v.where)) # "" =>
         /\ ~result.ok /\ result.v = <<>>
         /\ ErrorKind(result.err) = LeafError(LeafUnder(query.v.where))
    /\ FilterErrs # {} =>
         /\ ~result.ok /\ result.v = <<>>
         /\ ErrorKind(result.err) \in {"TypeError", "FieldNotFound"}

\* A NOT over a comparison on a Str column has failed the query.
C15_Witness ==
  /\ Responding /\ Len(sections) > 0
  /\ query.v.where.op = "NOT"
  /\ LeafError(LeafUnder(query.v.where)) = "TypeError"
  /\ ~result.ok /\ result.err = "Operation is not valid"

\* The k-th passing record, in stored order.
KthPasser(k) == CHOOSE i \in Passers : Cardinality({j \in Passers : j <= i}) = k

Projection(item, columns) == [col \in Range(columns) |-> Get(item, col).v]

RowsInStoredOrder ==
  (/\ Responding /\ result.ok
   /\ ~query.v.transformations.some
   /\ query.v.options.order.kind = "NONE") =>
    /\ Len(result.v) = Cardinality(Passers)
    /\ \A k \in 1..Len(result.v) :
         result.v[k] = Projection(sections[KthPasser(k)], query.v.options.columns)

\* C16: without ORDER and TRANSFORMATIONS the returned rows are the
\* projections of exactly the passing records, row k from the k-th passing
\* record in stored order, and no step of a query changes the dataset.
C16_StoredOrder == []RowsInStoredOrder /\ [][sections' = sections]_vars

\* Two passing records with different rows have been returned.
C16_Witness ==
  /\ Responding /\ result.ok
  /\ ~query.v.transformations.some
  /\ query.v.options.order.kind = "NONE"
  /\ Passers = {1, 2}
  /\ Len(result.v) = 2
  /\ result.v[1] # result.v[2]

FirstChild == parse_filter(query.v.where.subs[1], sections[1], cache)

\* C17: AND whose first child is false on the record returns false, and OR
\* whose first child is true returns true, whatever the later child would
\* do (an error of the later child is not raised).
C17_ShortCircuit ==
  (pc = "called" /\ query.v.where.op \in {"AND", "OR"} /\ FirstChild.ok) =>
    /\ (query.v.where.op = "AND" /\ ~FirstChild.v) => (result.ok /\ ~result.v)
    /\ (query.v.where.op = "OR" /\ FirstChild.v) => (result.ok /\ result.v)

\* An entry of the cache is never replaced or removed.
WriteOnce == \A p \in DOMAIN cache : p \in DOMAIN cache' /\ cache'[p] = cache[p]

\* What an IS evaluation of pattern p on text s returns when it runs alone
\* on an empty cache.
Alone(p, s) == is_regex(Regex_new(p), s)

SameResult(a, b) ==
  /\ a.ok = b.ok
  /\ a.ok => (a.v <=> b.v)
  /\ ~a.ok => (a.err = b.err /\ a.arg = b.arg)

CacheSound ==
  /\ \A p \in DOMAIN cache : cache[p] = Regex_new(p)
  /\ \A w \in DOMAIN threads : \A k \in 1..Len(threads[w].out) :
       SameResult(threads[w].out[k], Alone(threads[w].job[k], threads[w].s))

\* C18: under every interleaving of threads that evaluate IS filters, an
\* entry of the pattern cache is never replaced or removed, every entry is
\* the compilation result of its own key, and every IS evaluation returns
\* what it returns alone on an empty cache.
C18_CacheWriteOnce == []CacheSound /\ [][WriteOnce]_vars

\* Both threads are done, they asked for a common pattern, and the cache
\* holds a compiled pattern and the error of one that does not compile.
C18_Witness ==
  /\ DOMAIN threads = Workers
  /\ \A w \in Workers : threads[w].at > Len(threads[w].job)
  /\ Range(threads[1].job) \cap Range(threads[2].job) # {}
  /\ threads[1].s # threads[2].s
  /\ DOMAIN cache = {"a*", "("}

\* The 5001st passing record among the passing records ps, 0 when there
\* are fewer.
OverflowAt(ps) ==
  IF Cardinality(ps) <= ResultCap THEN 0
  ELSE CHOOSE i \in (ResultCap + 1)..Len(sections) :
         i \in ps /\ Cardinality({j \in ps : j <= i}) = ResultCap + 1

FirstErrAt(errs) == IF errs = {} THEN 0 ELSE Least(errs)

\* Where the scan of a query stops, and with what, by the place p of the
\* 5001st passing record and the place e of the first record with a filter
\* error (0 for none).
ScanStopsAt(p, e) ==
  /\ (p > 0 /\ (e = 0 \/ p < e)) =>
       /\ result = TooLarge
       /\ ScanStop(query.v.where, sections, cache) = p
  /\ (e > 0 /\ (p = 0 \/ e < p)) =>
       /\ ~result.ok /\ result # TooLarge
       /\ result = parse_filter(query.v.where, sections[e], cache)
       /\ ScanStop(query.v.where, sections, cache) = e

\* C19: the scan stops at the 5001st passing record, records after it
\* are not evaluated and the query fails with "Result too large", unless
\* the filter fails on a record before that point: then the scan stops
\* there and the query fails with the filter's error.
C19_ScanStops == Responding => ScanStopsAt(OverflowAt(Passers), FirstErrAt(FilterErrs))

\* The 5001st passing record is not the last record, and the query failed
\* with "Result too large".
C19_Witness ==
  /\ Responding
  /\ result = TooLarge
  /\ Len(sections) > ResultCap + 1
  /\ ScanStop(query.v.where, sections, cache) < Len(sections)

====
